---------------------------- MODULE Spec2Model ----------------------------
(***************************************************************************)
(* PlantPilot API (src/apps/api/src/index.ts): the bounded record stores,  *)
(* their per-store write chains, the SOP lifecycle and the entitlement /   *)
(* royalty ledger.                                                         *)
(*                                                                         *)
(* Every request handler of the source runs to completion without an       *)
(* await between its first read of a store and its return, so one handler  *)
(* is one atomic action.  The callbacks of a write chain run later, one    *)
(* step at a time: a link starts (mkdir/writeFile are issued), then it      *)
(* settles (the write succeeded or failed).                                 *)
(***************************************************************************)
EXTENDS Integers, Sequences, FiniteSets, TLC

(***************************************************************************)
(* Bounds of the model.  The caps are 200 / 200 / 1000 / 5000 / 5000 in    *)
(* the source (lines 400, 441, 507, 577, 594); they are scaled down here   *)
(* so that eviction happens within a few appends.                          *)
(***************************************************************************)
IntakeCap == 3
ChatCap == 3
SopCap == 2
EntitlementCap == 2
RoyaltyCap == 2
\* snapshot loaders keep the first 200 / 500 / 1000 / 5000 (lines 179, 256, 291, 331)
IntakeLoadCap == 3
ChatLoadCap == 3
SopLoadCap == 1
EntitlementLoadCap == 1
RoyaltyLoadCap == 2
\* the clock stops ticking here
MaxClock == 1
\* a handler is not taken while its store already has this many flushes pending
MaxPending == 2
\* appends to the intake store per run
MaxAppends == 3
\* grants of one (user, product, transaction) triple per process lifetime
MaxGrants == 2
\* purchases granted per run while no flush runs
MaxPurchases == 4
\* the largest revenue for which the royalty arithmetic is tabulated
MaxRevenue == 40
\* the default and the ceiling of the limit of a listing (20 and 50 in the
\* source, lines 413-416 and 450-453), scaled like the caps: default < ceiling
\* < cap
RecentDefault == 1
RecentCeiling == 2
\* records the intake store has evicted where a full store is listed (5 in
\* the scenario of the specification: 205 appends to a store of 200)
Evicted == 2
\* chat messages per run
MaxChats == 4

VARIABLES
    clock,                       \* Date.now() / new Date().toISOString()
    intakeRecords,               \* line 152
    chatRecords,                 \* line 153
    sopRecords,                  \* line 154
    sopEntitlements,             \* line 155
    sopRoyaltyLedger,            \* line 156
    intakeWriteChain,            \* line 157
    chatWriteChain,              \* line 158
    sopWriteChain,               \* line 159
    sopEntitlementWriteChain,    \* line 160
    sopRoyaltyLedgerWriteChain,  \* line 161
    intakeDataFile,              \* content of the file named at line 11
    chatDataFile,                \* line 15
    sopDataFile,                 \* line 19
    sopEntitlementDataFile,      \* line 23
    sopRoyaltyLedgerDataFile,    \* line 27
    request,                     \* the request handled last
    reply,                       \* what its handler returned
    intakeLog,                   \* history: every intake record appended, oldest first
    chatLog,                     \* history: every chat record appended, oldest first
    granted,                     \* history: entitlements granted per triple, this process
    posted                       \* history: royalty entries posted per triple, this process

memVars == <<intakeRecords, sopRecords, sopEntitlements, sopRoyaltyLedger>>
chainVars == <<intakeWriteChain, sopWriteChain, sopEntitlementWriteChain,
               sopRoyaltyLedgerWriteChain>>
fileVars == <<intakeDataFile, sopDataFile, sopEntitlementDataFile,
              sopRoyaltyLedgerDataFile>>
httpVars == <<request, reply>>
histVars == <<intakeLog, granted, posted>>
chatVars == <<chatRecords, chatWriteChain, chatDataFile, chatLog>>
vars == <<clock, memVars, chainVars, fileVars, httpVars, histVars, chatVars>>

-----------------------------------------------------------------------------
(* Sequences *)

Min(a, b) == IF a < b THEN a ELSE b

\* Array.prototype.slice(0, n)
Slice(s, n) == SubSeq(s, 1, Min(n, Len(s)))

Remove(s, i) == SubSeq(s, 1, i - 1) \o SubSeq(s, i + 1, Len(s))

Reverse(s) == [i \in 1..Len(s) |-> s[Len(s) - i + 1]]

\* Array.prototype.find, given the indices that match: the first of them, 0
\* when there is none
First(matches) ==
    IF matches = {} THEN 0 ELSE CHOOSE i \in matches : \A j \in matches : i <= j

\* faulty variant of Unshift: the oldest records are kept, the head is cut
UnshiftTrimHead(records, record, cap) ==
    LET all == <<record>> \o records
    IN  IF Len(all) > cap THEN SubSeq(all, Len(all) - cap + 1, Len(all)) ELSE all

\* records.unshift(record); if (records.length > cap) records.length = cap
Unshift(records, record, cap) ==
    LET all == <<record>> \o records
    IN  IF Len(all) > cap THEN SubSeq(all, 1, cap) ELSE all

\* `${prefix}_${Date.now()}_${Math.random().toString(36).slice(2, 8)}`
NewId(prefix, now, rnd) == [prefix |-> prefix, ms |-> now, suffix |-> rnd]

-----------------------------------------------------------------------------
(* Files and write chains *)

\* JSON.stringify(records, null, 2): the text of a JSON array document
JSONStringify(records) == [json |-> "array", items |-> records]

NoFile == [state |-> "missing", text |-> JSONStringify(<<>>)]
Written(text) == [state |-> "written", text |-> text]
\* writeFile is not atomic: a write that fails half way leaves a torn text,
\* which JSON.parse rejects
Torn == [state |-> "torn", text |-> JSONStringify(<<>>)]

\* Promise.resolve()
\* (logged counts the app.log.error calls of the chain's .catch handlers)
ResolvedChain == [links |-> <<>>, rejected |-> FALSE, logged |-> 0]

\* chain.then(write).catch(log): one more link, holding the text to write
Then(chain, snapshot) ==
    [chain EXCEPT !.links = Append(@, [snapshot |-> snapshot, st |-> "waiting"])]

\* faulty variant of ThenRuns: the callback does not wait for the chain
ThenRunsAnyLink(chain, i) == chain.links[i].st = "waiting"

\* The callback given to .then runs once the promise it was attached to is
\* fulfilled.  Settled links are dropped from the chain, so the promise before
\* link i is settled when no link is left before it.
ThenRuns(chain, i) == i = 1 /\ ~chain.rejected /\ chain.links[i].st = "waiting"

\* faulty variant of Uncaught: the chain has no .catch
UncaughtMissingCatch == TRUE

\* .catch((err) => app.log.error(...)) turns a rejected write into a fulfilled
\* chain: the chain is left rejected only if the error is not caught
Uncaught == FALSE

Running(chain) == {i \in 1..Len(chain.links) : chain.links[i].st = "running"}

StartLink(chain, i) == [chain EXCEPT !.links[i].st = "running"]
SettleOk(chain, i) == [chain EXCEPT !.links = Remove(@, i)]
SettleFail(chain, i) ==
    [links |-> Remove(chain.links, i), rejected |-> Uncaught,
     logged |-> chain.logged + 1]

\* faulty variant of WrittenText: the store is serialized inside the callback
WrittenTextAtRun(link, records) == JSONStringify(records)

\* What the write callback hands to writeFile: the text serialized when the
\* flush was scheduled (const snapshot = ... precedes the .then)
WrittenText(link, records) == link.snapshot

\* What a failed mkdir/writeFile leaves on disk: the old file, or a torn one
AfterFailedWrite(file) == {file, Torn}

-----------------------------------------------------------------------------
(* Snapshot loaders *)

\* z.object({...}).parse: every required key present (the values of a written
\* record have the types the schema asks for), unknown keys stripped
Parsed(item, required, optional) ==
    [k \in DOMAIN item \cap (required \cup optional) |-> item[k]]

\* faulty variant of LoadRecords: the items the schema refuses are skipped,
\* the others are admitted
LoadRecordsAdmitsValid(file, refused, required, optional, cap) ==
    IF file.state = "written" /\ file.text.json = "array"
    THEN LET admitted == {i \in 1..Len(file.text.items) : i \notin refused}
         IN  IF admitted = {} THEN <<>>
             ELSE <<Parsed(file.text.items[First(admitted)], required, optional)>>
    ELSE <<>>

\* try { z.array(schema).parse(JSON.parse(raw)); records.splice(0, length,
\* ...parsed.slice(0, cap)) } catch { }: an unreadable file, a text that is not
\* JSON, or one item the schema refuses, leaves the (empty) store as it is
LoadRecords(file, refused, required, optional, cap) ==
    IF /\ file.state = "written"
       /\ file.text.json = "array"
       /\ refused = {}
    THEN Slice([i \in 1..Len(file.text.items) |->
                   Parsed(file.text.items[i], required, optional)], cap)
    ELSE <<>>

IntakeKeys == {"id", "receivedAt", "plantName"}
SopKeys == {"id", "ownerId", "name", "status", "createdAt", "updatedAt"}
SopOptionalKeys == {"submittedAt", "approvedAt"}
EntitlementKeys == {"id", "userId", "productId", "transactionId", "source",
                    "purchasedAt"}
RoyaltyKeys == {"id", "productId", "creatorId", "transactionId",
                "netRevenueCents", "royaltyPercent", "royaltyAmountCents",
                "createdAt"}

\* function loadIntakeRecords
LoadIntakeRecords(file) ==
    LoadRecords(file,
                {i \in 1..Len(file.text.items) :
                    ~(IntakeKeys \subseteq DOMAIN file.text.items[i])},
                IntakeKeys, {}, IntakeLoadCap)

ChatKeys == {"id", "message", "response", "createdAt"}

\* function loadChatRecords
LoadChatRecords(file) ==
    LoadRecords(file,
                {i \in 1..Len(file.text.items) :
                    ~(ChatKeys \subseteq DOMAIN file.text.items[i])},
                ChatKeys, {}, ChatLoadCap)

\* function loadSopRecords
LoadSopRecords(file) ==
    LoadRecords(file,
                {i \in 1..Len(file.text.items) :
                    ~(/\ SopKeys \subseteq DOMAIN file.text.items[i]
                      /\ file.text.items[i].status \in
                            {"private", "submitted", "approved", "rejected"})},
                SopKeys, SopOptionalKeys, SopLoadCap)

\* function loadSopEntitlements
LoadSopEntitlements(file) ==
    LoadRecords(file,
                {i \in 1..Len(file.text.items) :
                    ~(/\ EntitlementKeys \subseteq DOMAIN file.text.items[i]
                      /\ file.text.items[i].source = "apple_iap")},
                EntitlementKeys, {}, EntitlementLoadCap)

\* function loadSopRoyaltyLedger
LoadSopRoyaltyLedger(file) ==
    LoadRecords(file,
                {i \in 1..Len(file.text.items) :
                    ~(RoyaltyKeys \subseteq DOMAIN file.text.items[i])},
                RoyaltyKeys, {}, RoyaltyLoadCap)

-----------------------------------------------------------------------------
(* Requests and replies *)

NoRequest == [op |-> "none"]
NoReply == [status |-> 0]

\* getUserIdFromHeaders: the x-growroom-user-id header, trimmed; "" stands for
\* an absent or blank header
GetUserIdFromHeaders(raw) == IF raw = "" THEN "anon_user" ELSE raw

-----------------------------------------------------------------------------
(* Intake store *)

PlantNames == {"Tomato", "Basil"}

\* intakeSchema: plantName is z.string().min(1)
IntakeSchemaOk(plantName) == plantName # ""

\* faulty variant of PersistIntakeRecords: the write is started by the handler
\* itself instead of being chained behind the earlier ones
PersistIntakeRecordsUnchained(records) ==
    [intakeWriteChain EXCEPT
        !.links = Append(@, [snapshot |-> JSONStringify(records),
                             st |-> "running"])]

\* function persistIntakeRecords
PersistIntakeRecords(records) == Then(intakeWriteChain, JSONStringify(records))

\* app.post("/v1/intake")
PostIntake(plantName, rnd) ==
    /\ request' = [op |-> "intake", plantName |-> plantName]
    /\ IF ~IntakeSchemaOk(plantName)
       THEN /\ reply' = [status |-> 400, ok |-> FALSE]
            /\ UNCHANGED <<intakeRecords, intakeWriteChain, intakeLog>>
       ELSE LET record == [id |-> NewId("intake", clock, rnd),
                           receivedAt |-> clock,
                           plantName |-> plantName]
                after == Unshift(intakeRecords, record, IntakeCap)
            IN  /\ intakeRecords' = after
                /\ intakeWriteChain' = PersistIntakeRecords(after)
                /\ intakeLog' = Append(intakeLog, record)
                /\ reply' = [status |-> 200, ok |-> TRUE, id |-> record.id]
    /\ UNCHANGED <<chatVars, clock, sopRecords, sopEntitlements, sopRoyaltyLedger,
                   sopWriteChain, sopEntitlementWriteChain,
                   sopRoyaltyLedgerWriteChain, fileVars, granted, posted>>

\* the .then callback of persistIntakeRecords is entered
IntakeFlushStart ==
    /\ \E i \in 1..Len(intakeWriteChain.links) :
          /\ ThenRuns(intakeWriteChain, i)
          /\ intakeWriteChain' = StartLink(intakeWriteChain, i)
    /\ UNCHANGED <<chatVars, clock, memVars, sopWriteChain, sopEntitlementWriteChain,
                   sopRoyaltyLedgerWriteChain, fileVars, httpVars, histVars>>

\* mkdir and writeFile resolved
IntakeFlushOk ==
    /\ \E i \in Running(intakeWriteChain) :
          /\ intakeDataFile' =
                 Written(WrittenText(intakeWriteChain.links[i], intakeRecords))
          /\ intakeWriteChain' = SettleOk(intakeWriteChain, i)
    /\ UNCHANGED <<chatVars, clock, memVars, sopWriteChain, sopEntitlementWriteChain,
                   sopRoyaltyLedgerWriteChain, sopDataFile, sopEntitlementDataFile,
                   sopRoyaltyLedgerDataFile, httpVars, histVars>>

\* mkdir or writeFile rejected; the .catch logs the error
IntakeFlushFail ==
    /\ \E i \in Running(intakeWriteChain) :
          /\ intakeDataFile' \in AfterFailedWrite(intakeDataFile)
          /\ intakeWriteChain' = SettleFail(intakeWriteChain, i)
    /\ UNCHANGED <<chatVars, clock, memVars, sopWriteChain, sopEntitlementWriteChain,
                   sopRoyaltyLedgerWriteChain, sopDataFile, sopEntitlementDataFile,
                   sopRoyaltyLedgerDataFile, httpVars, histVars>>

\* Number(limitRaw), for the query strings a client sends here; a number is
\* held in tenths, so that 1.5 can be told from 1 and from 2
NaN == [kind |-> "NaN", tenths |-> 0]
Infinity == [kind |-> "Infinity", tenths |-> 0]
Finite(tenths) == [kind |-> "finite", tenths |-> tenths]
Decimals ==
    [s \in {"", "0", "-1", "0.5", "1", "1.5", "2", "3", "4", "5", "6"} |->
        CASE s = "" -> 0
          [] s = "0" -> 0
          [] s = "-1" -> 0 - 10
          [] s = "0.5" -> 5
          [] s = "1" -> 10
          [] s = "1.5" -> 15
          [] s = "2" -> 20
          [] s = "3" -> 30
          [] s = "4" -> 40
          [] s = "5" -> 50
          [] s = "6" -> 60]
Number(raw) ==
    IF raw \in DOMAIN Decimals THEN Finite(Decimals[raw])
    ELSE IF raw = "Infinity" THEN Infinity
    ELSE NaN

\* (request.query as { limit?: string })?.limit; Number(undefined) is NaN, as
\* is Number("undefined")
LimitRaw(query) == IF "limit" \in DOMAIN query THEN query.limit ELSE "undefined"

\* faulty variant of RecentLimit: the ceiling is not applied
RecentLimitUnclamped(query) ==
    LET parsedLimit == Number(LimitRaw(query))
    IN  IF parsedLimit.kind = "finite" /\ parsedLimit.tenths > 0
        THEN parsedLimit.tenths
        ELSE RecentDefault * 10

\* Number.isFinite(parsedLimit) && parsedLimit > 0 ? Math.min(parsedLimit, 50)
\* : 20, in tenths
RecentLimit(query) ==
    LET parsedLimit == Number(LimitRaw(query))
    IN  IF parsedLimit.kind = "finite" /\ parsedLimit.tenths > 0
        THEN Min(parsedLimit.tenths, RecentCeiling * 10)
        ELSE RecentDefault * 10

\* faulty variant of SliceTo: the oldest records are returned
SliceToEnd(records, tenths) ==
    SubSeq(records, Len(records) - Min(tenths \div 10, Len(records)) + 1,
           Len(records))

\* records.slice(0, limit): slice truncates a fractional end
SliceTo(records, tenths) == Slice(records, tenths \div 10)

\* app.get("/v1/intake/recent")
GetIntakeRecent(query) ==
    /\ request' = [op |-> "intakeRecent", query |-> query]
    /\ reply' = [status |-> 200, ok |-> TRUE, count |-> Len(intakeRecords),
                 items |-> SliceTo(intakeRecords, RecentLimit(query))]
    /\ UNCHANGED <<clock, memVars, chainVars, fileVars, histVars, chatVars>>

-----------------------------------------------------------------------------
(* Chat store *)

\* A message is the sequence of its characters.
\* String.prototype.toLowerCase, on the letters used here
ToLowerCase(s) ==
    [i \in 1..Len(s) |->
        CASE s[i] = "P" -> "p"
          [] s[i] = "H" -> "h"
          [] s[i] = "M" -> "m"
          [] OTHER -> s[i]]

\* String.prototype.includes
Includes(s, part) ==
    \E i \in 1..(Len(s) - Len(part) + 1) : SubSeq(s, i, i + Len(part) - 1) = part

\* chatRequestSchema: message is z.string().min(1).max(2000)
ChatRequestSchemaOk(body) == Len(body.message) >= 1

\* input.context?.field || fallback
ContextOr(input, field, fallback) ==
    IF /\ "context" \in DOMAIN input
       /\ field \in DOMAIN input.context
       /\ input.context[field] # ""
    THEN input.context[field]
    ELSE fallback

\* function buildChatResponse: which of the four texts, and what it names
BuildChatResponse(input) ==
    LET message == ToLowerCase(input.message)
        targetPpm == ContextOr(input, "targetPpm", "your target")
        targetPh == ContextOr(input, "targetPh", "your target")
        plantName == ContextOr(input, "plantName", "your plant")
    IN  IF Includes(message, <<"p", "p", "m">>)
        THEN [about |-> "ppm", plantName |-> plantName, target |-> targetPpm]
        ELSE IF Includes(message, <<"p", "h">>)
        THEN [about |-> "ph", plantName |-> "", target |-> targetPh]
        ELSE IF Includes(message, <<"f", "l", "u", "s", "h">>)
        THEN [about |-> "flush", plantName |-> "", target |-> ""]
        ELSE [about |-> "environment", plantName |-> "", target |-> ""]

\* faulty variant of PersistChatRecords: no flush is scheduled while one is
\* pending
PersistChatRecordsUnlessBusy(records) ==
    IF chatWriteChain.links # <<>> THEN chatWriteChain
    ELSE Then(chatWriteChain, JSONStringify(records))

\* function persistChatRecords
PersistChatRecords(records) == Then(chatWriteChain, JSONStringify(records))

\* app.post("/v1/chat")
PostChat(body, rnd) ==
    /\ request' = [op |-> "chat", body |-> body]
    /\ IF ~ChatRequestSchemaOk(body)
       THEN /\ reply' = [status |-> 400, ok |-> FALSE]
            /\ UNCHANGED <<chatRecords, chatWriteChain, chatLog>>
       ELSE LET record == [id |-> NewId("chat", clock, rnd),
                           message |-> body.message,
                           response |-> BuildChatResponse(body),
                           createdAt |-> clock]
                after == Unshift(chatRecords, record, ChatCap)
            IN  /\ chatRecords' = after
                /\ chatWriteChain' = PersistChatRecords(after)
                /\ chatLog' = Append(chatLog, record)
                /\ reply' = [status |-> 200, ok |-> TRUE, item |-> record]
    /\ UNCHANGED <<clock, memVars, chainVars, fileVars, histVars, chatDataFile>>

\* app.get("/v1/chat/recent")
GetChatRecent(query) ==
    /\ request' = [op |-> "chatRecent", query |-> query]
    /\ reply' = [status |-> 200, ok |-> TRUE, count |-> Len(chatRecords),
                 items |-> SliceTo(chatRecords, RecentLimit(query))]
    /\ UNCHANGED <<clock, memVars, chainVars, fileVars, histVars, chatVars>>

\* the .then callback of persistChatRecords is entered
ChatFlushStart ==
    /\ \E i \in 1..Len(chatWriteChain.links) :
          /\ ThenRuns(chatWriteChain, i)
          /\ chatWriteChain' = StartLink(chatWriteChain, i)
    /\ UNCHANGED <<clock, memVars, chainVars, fileVars, httpVars, histVars,
                   chatRecords, chatDataFile, chatLog>>

\* mkdir and writeFile resolved
ChatFlushOk ==
    /\ \E i \in Running(chatWriteChain) :
          /\ chatDataFile' =
                 Written(WrittenText(chatWriteChain.links[i], chatRecords))
          /\ chatWriteChain' = SettleOk(chatWriteChain, i)
    /\ UNCHANGED <<clock, memVars, chainVars, fileVars, httpVars, histVars,
                   chatRecords, chatLog>>

\* mkdir or writeFile rejected; the .catch logs the error
ChatFlushFail ==
    /\ \E i \in Running(chatWriteChain) :
          /\ chatDataFile' \in AfterFailedWrite(chatDataFile)
          /\ chatWriteChain' = SettleFail(chatWriteChain, i)
    /\ UNCHANGED <<clock, memVars, chainVars, fileVars, httpVars, histVars,
                   chatRecords, chatLog>>

-----------------------------------------------------------------------------
(* SOP store and lifecycle *)

\* sopStatusSchema
SopStatuses == {"private", "submitted", "approved", "rejected"}

Headers == {"", "alice"}
SopNames == {"Veg week 1"}
\* a name shorter than the two characters sopCreateSchema asks for
TooShort == "V"

\* sopCreateSchema: name is z.string().min(2).max(120)
SopCreateSchemaOk(name) == name # TooShort

\* request.params.id when the route has none
NoId == NewId("", 0, "")

\* obj.field = value, for a field the object may not have yet
SetField(obj, field, value) ==
    [k \in DOMAIN obj \cup {field} |-> IF k = field THEN value ELSE obj[k]]

\* function persistSopRecords
PersistSopRecords(records) == Then(sopWriteChain, JSONStringify(records))

\* app.post("/v1/sops/my")
PostSop(header, name, rnd) ==
    /\ request' = [op |-> "createSop", header |-> header, name |-> name]
    /\ IF ~SopCreateSchemaOk(name)
       THEN /\ reply' = [status |-> 400, ok |-> FALSE]
            /\ UNCHANGED <<sopRecords, sopWriteChain>>
       ELSE LET record == [id |-> NewId("sop", clock, rnd),
                           ownerId |-> GetUserIdFromHeaders(header),
                           name |-> name,
                           status |-> "private",
                           createdAt |-> clock,
                           updatedAt |-> clock]
                after == Unshift(sopRecords, record, SopCap)
            IN  /\ sopRecords' = after
                /\ sopWriteChain' = PersistSopRecords(after)
                /\ reply' = [status |-> 200, ok |-> TRUE, item |-> record]
    /\ UNCHANGED <<chatVars, clock, intakeRecords, sopEntitlements, sopRoyaltyLedger,
                   intakeWriteChain, sopEntitlementWriteChain,
                   sopRoyaltyLedgerWriteChain, fileVars, histVars>>

\* faulty variant of FindSop: the owner is not part of the lookup
FindSopByIdOnly(records, id, userId) ==
    First({i \in 1..Len(records) : records[i].id = id})

\* sopRecords.find((record) => record.id === id && record.ownerId === userId)
FindSop(records, id, userId) ==
    First({i \in 1..Len(records) :
              records[i].id = id /\ records[i].ownerId = userId})

\* app.post("/v1/sops/:id/submit")
SubmitSop(header, id) ==
    /\ request' = [op |-> "submit", header |-> header, id |-> id]
    /\ LET userId == GetUserIdFromHeaders(header)
           existing == FindSop(sopRecords, id, userId)
       IN  IF id = NoId
           THEN /\ reply' = [status |-> 400, ok |-> FALSE]
                /\ UNCHANGED <<sopRecords, sopWriteChain>>
           ELSE IF existing = 0
           THEN /\ reply' = [status |-> 404, ok |-> FALSE]
                /\ UNCHANGED <<sopRecords, sopWriteChain>>
           ELSE LET item == SetField(
                               [sopRecords[existing] EXCEPT !.status = "submitted",
                                                            !.updatedAt = clock],
                               "submittedAt", clock)
                    after == [sopRecords EXCEPT ![existing] = item]
                IN  /\ sopRecords' = after
                    /\ sopWriteChain' = PersistSopRecords(after)
                    /\ reply' = [status |-> 200, ok |-> TRUE, item |-> item]
    /\ UNCHANGED <<chatVars, clock, intakeRecords, sopEntitlements, sopRoyaltyLedger,
                   intakeWriteChain, sopEntitlementWriteChain,
                   sopRoyaltyLedgerWriteChain, fileVars, histVars>>

\* (a, b) => (a.updatedAt < b.updatedAt ? 1 : -1)
CompareUpdatedAt(a, b) == IF a.updatedAt < b.updatedAt THEN 1 ELSE 0 - 1

\* Array.prototype.sort(comparefn): an arrangement of the items in which every
\* item stands before the ones comparefn puts it before.  This comparefn
\* never answers 0: of two records with the same updatedAt it puts each
\* before the other, it is not a consistent comparison function, and the
\* order sort leaves them in is the engine's choice.
SortOutcomes(items) ==
    LET n == Len(items)
        orders == {q \in [1..n -> 1..n] :
                     /\ \A i, j \in 1..n : q[i] = q[j] => i = j
                     /\ \A i, j \in 1..n :
                           i < j => CompareUpdatedAt(items[q[i]], items[q[j]]) < 0}
    IN  {[k \in 1..n |-> items[q[k]]] : q \in orders}

\* .slice(0, 100) of the listing
MySopsLimit == 100

\* app.get("/v1/sops/my")
GetMySops(header) ==
    /\ request' = [op |-> "mySops", header |-> header]
    /\ LET userId == GetUserIdFromHeaders(header)
           owned == SelectSeq(sopRecords, LAMBDA record : record.ownerId = userId)
       IN  \E sorted \in SortOutcomes(owned) :
              reply' = [status |-> 200, ok |-> TRUE,
                        count |-> Len(Slice(sorted, MySopsLimit)),
                        items |-> Slice(sorted, MySopsLimit)]
    /\ UNCHANGED <<clock, memVars, chainVars, fileVars, histVars, chatVars>>

\* the .then callback of persistSopRecords is entered
SopFlushStart ==
    /\ \E i \in 1..Len(sopWriteChain.links) :
          /\ ThenRuns(sopWriteChain, i)
          /\ sopWriteChain' = StartLink(sopWriteChain, i)
    /\ UNCHANGED <<chatVars, clock, memVars, intakeWriteChain, sopEntitlementWriteChain,
                   sopRoyaltyLedgerWriteChain, fileVars, httpVars, histVars>>

\* mkdir and writeFile resolved
SopFlushOk ==
    /\ \E i \in Running(sopWriteChain) :
          /\ sopDataFile' = Written(WrittenText(sopWriteChain.links[i], sopRecords))
          /\ sopWriteChain' = SettleOk(sopWriteChain, i)
    /\ UNCHANGED <<chatVars, clock, memVars, intakeWriteChain, sopEntitlementWriteChain,
                   sopRoyaltyLedgerWriteChain, intakeDataFile,
                   sopEntitlementDataFile, sopRoyaltyLedgerDataFile, httpVars,
                   histVars>>

\* mkdir or writeFile rejected; the .catch logs the error
SopFlushFail ==
    /\ \E i \in Running(sopWriteChain) :
          /\ sopDataFile' \in AfterFailedWrite(sopDataFile)
          /\ sopWriteChain' = SettleFail(sopWriteChain, i)
    /\ UNCHANGED <<chatVars, clock, memVars, intakeWriteChain, sopEntitlementWriteChain,
                   sopRoyaltyLedgerWriteChain, intakeDataFile,
                   sopEntitlementDataFile, sopRoyaltyLedgerDataFile, httpVars,
                   histVars>>

-----------------------------------------------------------------------------
(* Entitlements and royalty ledger *)

\* const STORE_LISTINGS
STORE_LISTINGS ==
    <<[id |-> "sop_athena_pro_fade", royaltyPercent |-> 30,
       creatorId |-> "creator_sharkmouse", active |-> TRUE],
      [id |-> "sop_sharkmouse_core", royaltyPercent |-> 30,
       creatorId |-> "creator_sharkmouse", active |-> TRUE]>>

\* faulty variant of IapVerifyParse: a revenue that is left out counts as 1
IapVerifyParseDefaultsToOne(body) ==
    IF "netRevenueCents" \notin DOMAIN body
    THEN [success |-> TRUE,
          data |-> [k \in DOMAIN body \cup {"netRevenueCents"} |->
                      IF k = "netRevenueCents" THEN 1 ELSE body[k]]]
    ELSE [success |-> body.netRevenueCents >= 0, data |-> body]

\* iapVerifySchema: netRevenueCents is z.number().int().min(0).optional()
\* .default(0); the product and transaction ids a client sends here all have
\* the three characters the schema asks for
IapVerifyParse(body) ==
    IF "netRevenueCents" \notin DOMAIN body
    THEN [success |-> TRUE, data |-> SetField(body, "netRevenueCents", 0)]
    ELSE [success |-> body.netRevenueCents >= 0, data |-> body]

\* faulty variant of FindListingIn: a listing that is not active is found too
FindListingInAnyState(listings, productId) ==
    First({i \in 1..Len(listings) : listings[i].id = productId})

\* listings.find((item) => item.id === productId && item.active)
FindListingIn(listings, productId) ==
    First({i \in 1..Len(listings) :
              listings[i].id = productId /\ listings[i].active})

\* STORE_LISTINGS.find((item) => item.id === productId && item.active)
FindListing(productId) == FindListingIn(STORE_LISTINGS, productId)

\* faulty variants of the lookup below: one that never matches, one that
\* starts scanning at the second entry
FindEntitlementNever(entitlements, userId, productId, transactionId) == 0
FindEntitlementSkipsHead(entitlements, userId, productId, transactionId) ==
    First({i \in 2..Len(entitlements) :
              /\ entitlements[i].userId = userId
              /\ entitlements[i].productId = productId
              /\ entitlements[i].transactionId = transactionId})

\* sopEntitlements.find((entry) => entry.userId === userId &&
\*   entry.productId === productId && entry.transactionId === transactionId)
FindEntitlement(entitlements, userId, productId, transactionId) ==
    First({i \in 1..Len(entitlements) :
              /\ entitlements[i].userId = userId
              /\ entitlements[i].productId = productId
              /\ entitlements[i].transactionId = transactionId})

\* faulty variant of RoyaltyAmountCents: the fraction is cut off
RoyaltyAmountCentsTruncated(netRevenueCents, royaltyPercent) ==
    (netRevenueCents * royaltyPercent) \div 100

\* Math.round((netRevenueCents * royaltyPercent) / 100): halves round up
RoyaltyAmountCents(netRevenueCents, royaltyPercent) ==
    (netRevenueCents * royaltyPercent * 2 + 100) \div 200

\* function persistSopEntitlements
PersistSopEntitlements(records) ==
    Then(sopEntitlementWriteChain, JSONStringify(records))

\* faulty variant of PersistSopRoyaltyLedger: no write of the ledger is chained
PersistSopRoyaltyLedgerSkipped(records) == sopRoyaltyLedgerWriteChain

\* function persistSopRoyaltyLedger
PersistSopRoyaltyLedger(records) ==
    Then(sopRoyaltyLedgerWriteChain, JSONStringify(records))

\* app.post("/v1/sops/iap/verify")
VerifyPurchase(header, body, rndEnt, rndRoy) ==
    /\ request' = [op |-> "verify", header |-> header, body |-> body]
    /\ LET parsed == IapVerifyParse(body)
           listing == FindListing(parsed.data.productId)
           userId == GetUserIdFromHeaders(header)
           existing == FindEntitlement(sopEntitlements, userId,
                                       parsed.data.productId,
                                       parsed.data.transactionId)
           key == <<userId, parsed.data.productId, parsed.data.transactionId>>
       IN  IF ~parsed.success
           THEN /\ reply' = [status |-> 400, ok |-> FALSE]
                /\ UNCHANGED <<sopEntitlements, sopRoyaltyLedger,
                               sopEntitlementWriteChain,
                               sopRoyaltyLedgerWriteChain, granted, posted>>
           ELSE IF listing = 0
           THEN /\ reply' = [status |-> 404, ok |-> FALSE]
                /\ UNCHANGED <<sopEntitlements, sopRoyaltyLedger,
                               sopEntitlementWriteChain,
                               sopRoyaltyLedgerWriteChain, granted, posted>>
           ELSE IF existing # 0
           THEN /\ reply' = [status |-> 200, ok |-> TRUE, alreadyOwned |-> TRUE,
                             entitlement |-> sopEntitlements[existing]]
                /\ UNCHANGED <<sopEntitlements, sopRoyaltyLedger,
                               sopEntitlementWriteChain,
                               sopRoyaltyLedgerWriteChain, granted, posted>>
           ELSE LET entitlement == [id |-> NewId("ent", clock, rndEnt),
                                    userId |-> userId,
                                    productId |-> parsed.data.productId,
                                    transactionId |-> parsed.data.transactionId,
                                    source |-> "apple_iap",
                                    purchasedAt |-> clock]
                    entitlements == Unshift(sopEntitlements, entitlement,
                                            EntitlementCap)
                    netRevenueCents == parsed.data.netRevenueCents
                    royaltyEntry ==
                       [id |-> NewId("roy", clock, rndRoy),
                        productId |-> STORE_LISTINGS[listing].id,
                        creatorId |-> STORE_LISTINGS[listing].creatorId,
                        transactionId |-> parsed.data.transactionId,
                        netRevenueCents |-> netRevenueCents,
                        royaltyPercent |-> STORE_LISTINGS[listing].royaltyPercent,
                        royaltyAmountCents |->
                           RoyaltyAmountCents(netRevenueCents,
                                              STORE_LISTINGS[listing].royaltyPercent),
                        createdAt |-> clock]
                    ledger == Unshift(sopRoyaltyLedger, royaltyEntry, RoyaltyCap)
                IN  /\ sopEntitlements' = entitlements
                    /\ sopEntitlementWriteChain' = PersistSopEntitlements(entitlements)
                    /\ granted' = [granted EXCEPT ![key] = @ + 1]
                    /\ IF netRevenueCents > 0
                       THEN /\ sopRoyaltyLedger' = ledger
                            /\ sopRoyaltyLedgerWriteChain' =
                                  PersistSopRoyaltyLedger(ledger)
                            /\ posted' = [posted EXCEPT ![key] = @ + 1]
                       ELSE UNCHANGED <<sopRoyaltyLedger,
                                        sopRoyaltyLedgerWriteChain, posted>>
                    /\ reply' = [status |-> 200, ok |-> TRUE,
                                 entitlement |-> entitlement,
                                 royaltyPercent |->
                                    STORE_LISTINGS[listing].royaltyPercent]
    /\ UNCHANGED <<chatVars, clock, intakeRecords, sopRecords, intakeWriteChain,
                   sopWriteChain, fileVars, intakeLog>>

\* new Set(sopEntitlements.filter((entry) => entry.userId === userId)
\*   .map((entry) => entry.productId))
OwnedProductIds(userId) ==
    {sopEntitlements[i].productId :
        i \in {j \in 1..Len(sopEntitlements) : sopEntitlements[j].userId = userId}}

\* app.get("/v1/sops/store")
GetSopStore(header) ==
    /\ request' = [op |-> "store", header |-> header]
    /\ LET userId == GetUserIdFromHeaders(header)
           active == SelectSeq(STORE_LISTINGS, LAMBDA item : item.active)
       IN  reply' = [status |-> 200, ok |-> TRUE, count |-> Len(STORE_LISTINGS),
                     items |-> [i \in 1..Len(active) |->
                                  SetField(active[i], "status",
                                           IF active[i].id \in OwnedProductIds(userId)
                                           THEN "owned" ELSE "locked")]]
    /\ UNCHANGED <<clock, memVars, chainVars, fileVars, histVars, chatVars>>

\* the .then callback of persistSopEntitlements is entered
EntitlementFlushStart ==
    /\ \E i \in 1..Len(sopEntitlementWriteChain.links) :
          /\ ThenRuns(sopEntitlementWriteChain, i)
          /\ sopEntitlementWriteChain' = StartLink(sopEntitlementWriteChain, i)
    /\ UNCHANGED <<chatVars, clock, memVars, intakeWriteChain, sopWriteChain,
                   sopRoyaltyLedgerWriteChain, fileVars, httpVars, histVars>>

\* mkdir and writeFile resolved
EntitlementFlushOk ==
    /\ \E i \in Running(sopEntitlementWriteChain) :
          /\ sopEntitlementDataFile' =
                 Written(WrittenText(sopEntitlementWriteChain.links[i],
                                     sopEntitlements))
          /\ sopEntitlementWriteChain' = SettleOk(sopEntitlementWriteChain, i)
    /\ UNCHANGED <<chatVars, clock, memVars, intakeWriteChain, sopWriteChain,
                   sopRoyaltyLedgerWriteChain, intakeDataFile, sopDataFile,
                   sopRoyaltyLedgerDataFile, httpVars, histVars>>

\* mkdir or writeFile rejected; the .catch logs the error
EntitlementFlushFail ==
    /\ \E i \in Running(sopEntitlementWriteChain) :
          /\ sopEntitlementDataFile' \in AfterFailedWrite(sopEntitlementDataFile)
          /\ sopEntitlementWriteChain' = SettleFail(sopEntitlementWriteChain, i)
    /\ UNCHANGED <<chatVars, clock, memVars, intakeWriteChain, sopWriteChain,
                   sopRoyaltyLedgerWriteChain, intakeDataFile, sopDataFile,
                   sopRoyaltyLedgerDataFile, httpVars, histVars>>

\* the .then callback of persistSopRoyaltyLedger is entered
RoyaltyFlushStart ==
    /\ \E i \in 1..Len(sopRoyaltyLedgerWriteChain.links) :
          /\ ThenRuns(sopRoyaltyLedgerWriteChain, i)
          /\ sopRoyaltyLedgerWriteChain' = StartLink(sopRoyaltyLedgerWriteChain, i)
    /\ UNCHANGED <<chatVars, clock, memVars, intakeWriteChain, sopWriteChain,
                   sopEntitlementWriteChain, fileVars, httpVars, histVars>>

\* mkdir and writeFile resolved
RoyaltyFlushOk ==
    /\ \E i \in Running(sopRoyaltyLedgerWriteChain) :
          /\ sopRoyaltyLedgerDataFile' =
                 Written(WrittenText(sopRoyaltyLedgerWriteChain.links[i],
                                     sopRoyaltyLedger))
          /\ sopRoyaltyLedgerWriteChain' = SettleOk(sopRoyaltyLedgerWriteChain, i)
    /\ UNCHANGED <<chatVars, clock, memVars, intakeWriteChain, sopWriteChain,
                   sopEntitlementWriteChain, intakeDataFile, sopDataFile,
                   sopEntitlementDataFile, httpVars, histVars>>

\* mkdir or writeFile rejected; the .catch logs the error
RoyaltyFlushFail ==
    /\ \E i \in Running(sopRoyaltyLedgerWriteChain) :
          /\ sopRoyaltyLedgerDataFile' \in AfterFailedWrite(sopRoyaltyLedgerDataFile)
          /\ sopRoyaltyLedgerWriteChain' = SettleFail(sopRoyaltyLedgerWriteChain, i)
    /\ UNCHANGED <<chatVars, clock, memVars, intakeWriteChain, sopWriteChain,
                   sopEntitlementWriteChain, intakeDataFile, sopDataFile,
                   sopEntitlementDataFile, httpVars, histVars>>

-----------------------------------------------------------------------------
(* Process restart *)

\* What a crash leaves of a file: as it was, unless a write of it was under
\* way, which may also have been torn or have completed
AfterCrash(file, chain) ==
    {file} \cup UNION {{Torn, Written(chain.links[i].snapshot)} : i \in Running(chain)}

\* the process dies and is started again: function start runs the five loaders
\* on what is on disk; the write chains and what they held are gone
Restart ==
    /\ intakeDataFile' \in AfterCrash(intakeDataFile, intakeWriteChain)
    /\ sopDataFile' \in AfterCrash(sopDataFile, sopWriteChain)
    /\ sopEntitlementDataFile' \in
          AfterCrash(sopEntitlementDataFile, sopEntitlementWriteChain)
    /\ sopRoyaltyLedgerDataFile' \in
          AfterCrash(sopRoyaltyLedgerDataFile, sopRoyaltyLedgerWriteChain)
    /\ chatDataFile' \in AfterCrash(chatDataFile, chatWriteChain)
    /\ intakeRecords' = LoadIntakeRecords(intakeDataFile')
    /\ chatRecords' = LoadChatRecords(chatDataFile')
    /\ sopRecords' = LoadSopRecords(sopDataFile')
    /\ sopEntitlements' = LoadSopEntitlements(sopEntitlementDataFile')
    /\ sopRoyaltyLedger' = LoadSopRoyaltyLedger(sopRoyaltyLedgerDataFile')
    /\ intakeWriteChain' = ResolvedChain
    /\ chatWriteChain' = ResolvedChain
    /\ sopWriteChain' = ResolvedChain
    /\ sopEntitlementWriteChain' = ResolvedChain
    /\ sopRoyaltyLedgerWriteChain' = ResolvedChain
    /\ request' = NoRequest
    /\ reply' = NoReply
    /\ intakeLog' = <<>>
    /\ chatLog' = <<>>
    /\ granted' = [x \in DOMAIN granted |-> 0]
    /\ posted' = [x \in DOMAIN posted |-> 0]
    /\ UNCHANGED clock

\* time passes
Tick ==
    /\ clock < MaxClock
    /\ clock' = clock + 1
    /\ UNCHANGED <<memVars, chainVars, fileVars, httpVars, histVars, chatVars>>

-----------------------------------------------------------------------------
(* Specifications *)

\* what clients of the ledger send
Users == {GetUserIdFromHeaders(header) : header \in Headers}
TransactionIds == {"tx1", "tx2"}
Purchases ==
    {[productId |-> "sop_athena_pro_fade", transactionId |-> t] :
        t \in TransactionIds}
    \cup {[productId |-> "sop_athena_pro_fade", transactionId |-> t,
            netRevenueCents |-> 1000] : t \in TransactionIds}
FreePurchases == {body \in Purchases : "netRevenueCents" \notin DOMAIN body}
Bodies ==
    Purchases
    \cup {[productId |-> "sop_retired", transactionId |-> "tx1",
            netRevenueCents |-> 1000],
           [productId |-> "sop_athena_pro_fade", transactionId |-> "tx1",
            netRevenueCents |-> 0 - 1]}
Triples == Users \X {"sop_athena_pro_fade", "sop_sharkmouse_core"} \X TransactionIds

\* function start: the stores as the loaders leave them, given the snapshot
\* files found on disk
Started(intakeFile, chatFile, sopFile, entitlementFile, royaltyFile) ==
    /\ clock = 0
    /\ intakeRecords = LoadIntakeRecords(intakeFile)
    /\ chatRecords = LoadChatRecords(chatFile)
    /\ chatWriteChain = ResolvedChain
    /\ chatDataFile = chatFile
    /\ chatLog = <<>>
    /\ sopRecords = LoadSopRecords(sopFile)
    /\ sopEntitlements = LoadSopEntitlements(entitlementFile)
    /\ sopRoyaltyLedger = LoadSopRoyaltyLedger(royaltyFile)
    /\ intakeWriteChain = ResolvedChain
    /\ sopWriteChain = ResolvedChain
    /\ sopEntitlementWriteChain = ResolvedChain
    /\ sopRoyaltyLedgerWriteChain = ResolvedChain
    /\ intakeDataFile = intakeFile
    /\ sopDataFile = sopFile
    /\ sopEntitlementDataFile = entitlementFile
    /\ sopRoyaltyLedgerDataFile = royaltyFile
    /\ request = NoRequest
    /\ reply = NoReply
    /\ intakeLog = <<>>
    /\ granted = [x \in Triples |-> 0]
    /\ posted = [x \in Triples |-> 0]

\* the process has started with no snapshot file on disk
Init == Started(NoFile, NoFile, NoFile, NoFile, NoFile)

\* SOP snapshot files the process may find at start: none, or one holding a
\* record a reviewer has approved or rejected (loadSopRecords admits every
\* status of sopStatusSchema)
ReviewedSop(owner, status) ==
    [id |-> NewId("sop", 0, "r"), ownerId |-> owner, name |-> "Veg week 1",
     status |-> status, createdAt |-> 0, updatedAt |-> 0, submittedAt |-> 0]
InitialSopFiles ==
    {NoFile,
     Written(JSONStringify(<<ReviewedSop("alice", "approved")>>)),
     Written(JSONStringify(<<ReviewedSop("anon_user", "rejected")>>))}

InitSop ==
    \E sopFile \in InitialSopFiles : Started(NoFile, NoFile, sopFile, NoFile, NoFile)

\* the ids a client may name: those of the stored records, one that no record
\* has, and none
AbsentId == NewId("sop", 0, "zzzzzz")
SopIds == {sopRecords[i].id : i \in 1..Len(sopRecords)} \cup {AbsentId, NoId}

NextSop ==
    \/ Tick
    \/ /\ Len(sopWriteChain.links) < MaxPending
       /\ \E header \in Headers, name \in SopNames \cup {TooShort} :
             PostSop(header, name, "a")
    \/ /\ Len(sopWriteChain.links) < MaxPending
       /\ \E header \in Headers, id \in SopIds : SubmitSop(header, id)
    \/ SopFlushStart
    \/ SopFlushOk

SpecSop == InitSop /\ [][NextSop]_vars

NextIntake ==
    \/ /\ Len(intakeLog) < MaxAppends
       /\ Len(intakeWriteChain.links) < MaxPending
       /\ \E plantName \in PlantNames \cup {""} : PostIntake(plantName, "a")
    \/ IntakeFlushStart
    \/ IntakeFlushOk
    \/ IntakeFlushFail

SpecIntake == Init /\ [][NextIntake]_vars

\* The ledger within one process lifetime, as its clients see it.  No handler
\* reads a write chain or a file, so the flushes are left pending here.
NextLedger ==
    /\ Len(sopEntitlementWriteChain.links) < MaxPurchases
    /\ \E header \in Headers, body \in Bodies :
          VerifyPurchase(header, body, "a", "a")

SpecLedger == Init /\ [][NextLedger]_vars

\* Appends to every store of the model, no flush running: each write chain
\* then holds, in order, the snapshot taken after each append of its store.
NextAppends ==
    \/ /\ Len(intakeWriteChain.links) < IntakeCap + 1
       /\ \E plantName \in PlantNames : PostIntake(plantName, "a")
    \/ /\ Len(sopWriteChain.links) < MaxAppends
       /\ \E header \in Headers : PostSop(header, "Veg week 1", "a")
    \/ /\ Len(sopEntitlementWriteChain.links) < MaxAppends
       /\ \E header \in Headers, body \in Purchases \ FreePurchases :
             VerifyPurchase(header, body, "a", "a")

SpecAppends == Init /\ [][NextAppends]_vars

\* The entitlement store with its flushes and with restarts: purchases that
\* report no revenue, so that the royalty ledger stays out of the picture.
NextEntitlementDisk ==
    \/ /\ Len(sopEntitlementWriteChain.links) < MaxPending
       /\ \A x \in Triples : granted[x] < MaxGrants
       /\ \E header \in Headers, body \in FreePurchases :
             VerifyPurchase(header, body, "a", "a")
    \/ EntitlementFlushStart
    \/ EntitlementFlushOk
    \/ EntitlementFlushFail
    \/ Restart

SpecEntitlementDisk == Init /\ [][NextEntitlementDisk]_vars

\* Snapshot files the process may find at start.  A record as the program
\* writes it, per store:
StoredIntake(rnd) ==
    [id |-> NewId("intake", 0, rnd), receivedAt |-> 0, plantName |-> "Basil"]
StoredChat(rnd) ==
    [id |-> NewId("chat", 0, rnd), message |-> <<"h", "i">>,
     response |-> BuildChatResponse([message |-> <<"h", "i">>]), createdAt |-> 0]
StoredSop(rnd) ==
    [id |-> NewId("sop", 0, rnd), ownerId |-> "alice", name |-> "Veg week 1",
     status |-> "private", createdAt |-> 0, updatedAt |-> 0]
StoredEntitlement(rnd) ==
    [id |-> NewId("ent", 0, rnd), userId |-> "alice",
     productId |-> "sop_athena_pro_fade", transactionId |-> "tx1",
     source |-> "apple_iap", purchasedAt |-> 0]
StoredRoyalty(rnd) ==
    [id |-> NewId("roy", 0, rnd), productId |-> "sop_athena_pro_fade",
     creatorId |-> "creator_sharkmouse", transactionId |-> "tx1",
     netRevenueCents |-> 1000, royaltyPercent |-> 30,
     royaltyAmountCents |-> 300, createdAt |-> 0]

\* the same record with a required field missing
Without(item, field) == [k \in DOMAIN item \ {field} |-> item[k]]

\* the shapes a file may have: absent, not JSON, JSON that is no array, an
\* empty array, an array of records, and arrays with one damaged record
FileShapes == {"missing", "torn", "object", "empty", "records", "damagedLast",
               "damagedFirst"}
FileOf(shape, first, second, field) ==
    CASE shape = "missing" -> NoFile
      [] shape = "torn" -> Torn
      [] shape = "object" -> Written([json |-> "object", items |-> <<>>])
      [] shape = "empty" -> Written(JSONStringify(<<>>))
      [] shape = "records" -> Written(JSONStringify(<<first, second>>))
      [] shape = "damagedLast" ->
            Written(JSONStringify(<<first, Without(second, field)>>))
      [] shape = "damagedFirst" ->
            Written(JSONStringify(<<Without(first, field), second>>))

InitLoad ==
    \E a, b \in FileShapes :
       Started(FileOf(a, StoredIntake("a"), StoredIntake("b"), "plantName"),
               FileOf(b, StoredChat("a"), StoredChat("b"), "response"),
               FileOf(a, StoredSop("a"), StoredSop("b"), "status"),
               FileOf(b, StoredEntitlement("a"), StoredEntitlement("b"), "userId"),
               FileOf(a, StoredRoyalty("a"), StoredRoyalty("b"),
                      "royaltyAmountCents"))

\* Start on any of these files, intake traffic with its flushes, and restarts.
NextLoad ==
    \/ /\ Len(intakeLog) < MaxPending
       /\ Len(intakeWriteChain.links) < MaxPending
       /\ \E plantName \in PlantNames : PostIntake(plantName, "c")
    \/ IntakeFlushStart
    \/ IntakeFlushOk
    \/ IntakeFlushFail
    \/ Restart

SpecLoad == InitLoad /\ [][NextLoad]_vars

\* what clients of the chat send: a question about pH, a greeting with a
\* context, and an empty message
ChatBodies ==
    {[message |-> <<"p", "H">>],
     [message |-> <<"h", "i">>, context |-> [plantName |-> "Basil"]],
     [message |-> <<>>]}

\* The intake and chat stores with their files, every write succeeding.  The
\* clients stop after a few requests.  A callback attached to a fulfilled
\* promise is run by the event loop, and a write that succeeds completes:
\* weak fairness of the four flush steps.
NextMirror ==
    \/ /\ Len(intakeLog) < MaxPending
       /\ \E plantName \in PlantNames : PostIntake(plantName, "a")
    \/ /\ Len(chatLog) < MaxChats
       /\ Len(chatWriteChain.links) < MaxPending
       /\ \E body \in ChatBodies : PostChat(body, "a")
    \/ IntakeFlushStart
    \/ IntakeFlushOk
    \/ ChatFlushStart
    \/ ChatFlushOk

SpecMirror ==
    /\ Init
    /\ [][NextMirror]_vars
    /\ WF_vars(IntakeFlushStart)
    /\ WF_vars(IntakeFlushOk)
    /\ WF_vars(ChatFlushStart)
    /\ WF_vars(ChatFlushOk)

\* the queries a client of a listing sends: no limit, or one of these texts
LimitTexts == {"", "0", "-1", "0.5", "1", "1.5", "2", "3", "4", "5", "6",
               "Infinity", "abc"}
Queries == {[other |-> "1"]} \cup {[limit |-> s] : s \in LimitTexts}

\* A filesystem that never answers for the intake file: an intake write that
\* has started never settles.  The chat file is written as usual.
NextStuck ==
    \/ /\ Len(intakeLog) < MaxAppends
       /\ \E plantName \in PlantNames : PostIntake(plantName, "a")
    \/ \E query \in {[other |-> "1"], [limit |-> "2"]} : GetIntakeRecent(query)
    \/ IntakeFlushStart
    \/ /\ Len(chatLog) < MaxPending
       /\ \E body \in ChatBodies : PostChat(body, "a")
    \/ ChatFlushStart
    \/ ChatFlushOk

SpecStuck ==
    /\ Init
    /\ [][NextStuck]_vars
    /\ WF_vars(IntakeFlushStart)
    /\ WF_vars(ChatFlushStart)
    /\ WF_vars(ChatFlushOk)

\* Purchases of every listed product that state their revenue: none, and
\* revenues whose royalty is whole, is below a half, is a half, and is above
\* a half.
Revenues == {0, 1, 2, 5, 15, 999, 1000}
PricedPurchases ==
    {[productId |-> STORE_LISTINGS[i].id, transactionId |-> t,
      netRevenueCents |-> r] :
        i \in 1..Len(STORE_LISTINGS), t \in TransactionIds, r \in Revenues}

NextRoyalty ==
    /\ Len(sopEntitlementWriteChain.links) < MaxPending
    /\ \E header \in Headers, body \in PricedPurchases \cup FreePurchases :
          VerifyPurchase(header, body, "a", "a")

SpecRoyalty == Init /\ [][NextRoyalty]_vars

\* The ledger of a process that found, at start, an entitlement for a product
\* that is no longer in the catalog.
RetiredEntitlement == [StoredEntitlement("a") EXCEPT !.productId = "sop_retired"]
InitCatalog ==
    \E file \in {NoFile, Written(JSONStringify(<<RetiredEntitlement>>))} :
       Started(NoFile, NoFile, NoFile, file, NoFile)

NextCatalog ==
    /\ Len(sopEntitlementWriteChain.links) < MaxPending
    /\ \E header \in Headers, body \in Bodies :
          VerifyPurchase(header, body, "a", "a")

SpecCatalog == InitCatalog /\ [][NextCatalog]_vars

\* the catalog of the source, and the catalogs it becomes when listings are
\* taken off sale
Catalogs ==
    {[i \in 1..Len(STORE_LISTINGS) |->
         [STORE_LISTINGS[i] EXCEPT !.active = i \in on] ] :
        on \in SUBSET (1..Len(STORE_LISTINGS))}
ProductIds == {STORE_LISTINGS[i].id : i \in 1..Len(STORE_LISTINGS)} \cup {"sop_retired"}

\* Appends to the intake and chat stores and listings of them, no flush
\* running.
NextRecent ==
    \/ /\ Len(intakeLog) < IntakeCap + Evicted
       /\ \E plantName \in PlantNames : PostIntake(plantName, "a")
    \/ \E query \in Queries : GetIntakeRecent(query)
    \/ /\ Len(chatLog) < MaxChats
       /\ PostChat([message |-> <<"p", "H">>], "a")
    \/ \E query \in Queries : GetChatRecent(query)

SpecRecent == Init /\ [][NextRecent]_vars

\* SOPs created, submitted and listed by two users while the clock ticks, no
\* flush running.
NextMySops ==
    \/ Tick
    \/ /\ Len(sopWriteChain.links) < MaxPending
       /\ \E header \in Headers, rnd \in {"a", "b"} :
             PostSop(header, "Veg week 1", rnd)
    \/ /\ Len(sopWriteChain.links) < MaxPending
       /\ \E header \in Headers, id \in SopIds \ {AbsentId, NoId} :
             SubmitSop(header, id)
    \/ \E header \in Headers : GetMySops(header)

SpecMySops == Init /\ [][NextMySops]_vars

\* One user's purchases with revenue, the flushes of both ledger stores, every
\* write succeeding, and crashes followed by a restart.
PaidPurchases == Purchases \ FreePurchases

NextLedgerDisk ==
    \/ /\ Len(sopEntitlementWriteChain.links) < MaxPending
       /\ \A x \in Triples : granted[x] < MaxGrants
       /\ \E body \in PaidPurchases : VerifyPurchase("alice", body, "a", "a")
    \/ EntitlementFlushStart
    \/ EntitlementFlushOk
    \/ RoyaltyFlushStart
    \/ RoyaltyFlushOk
    \/ Restart

SpecLedgerDisk == Init /\ [][NextLedgerDisk]_vars

\* Purchases by two users and listings of the catalog, within one process
\* lifetime, the flushes left pending.
NextOwned ==
    \/ /\ Len(sopEntitlementWriteChain.links) < MaxPurchases
       /\ \E header \in Headers, body \in Purchases :
             VerifyPurchase(header, body, "a", "a")
    \/ \E header \in Headers : GetSopStore(header)

SpecOwned == Init /\ [][NextOwned]_vars

-----------------------------------------------------------------------------
(* Properties of the bounded store and its write chain *)

\* the store after the first k appends of the log, by the contract of 4.1
StoreAfter(log, k, cap) == Slice(Reverse(SubSeq(log, 1, k)), cap)

\* the append that scheduled link i of the intake chain: every append schedules
\* one flush and settled links leave the chain in order
ScheduledBy(i) == Len(intakeLog) - Len(intakeWriteChain.links) + i

\* While no flush has run, link k of a store's chain holds the store as it was
\* after its k-th append, whose head is the k-th record appended.
Appended(chain, k) == chain.links[k].snapshot.items[1]

\* the store holds min(N, cap) records, the last appended ones, newest first
Bounded(records, chain, cap) ==
    LET N == Len(chain.links)
    IN  /\ Len(records) = Min(N, cap)
        /\ \A i \in 1..Len(records) : records[i] = Appended(chain, N - i + 1)

\* C4: after N appends to a store that started empty, the store holds
\* min(N, cap) records: the most recently appended ones, most recent first.
C4_Bounding ==
    /\ Len(intakeRecords) = Min(Len(intakeLog), IntakeCap)
    /\ \A i \in 1..Len(intakeRecords) :
          intakeRecords[i] = intakeLog[Len(intakeLog) - i + 1]
    /\ Bounded(intakeRecords, intakeWriteChain, IntakeCap)
    /\ Bounded(sopRecords, sopWriteChain, SopCap)
    /\ Bounded(sopEntitlements, sopEntitlementWriteChain, EntitlementCap)
    /\ Bounded(sopRoyaltyLedger, sopRoyaltyLedgerWriteChain, RoyaltyCap)

\* every store has evicted a record
C4_Witness ==
    /\ Len(intakeLog) > IntakeCap
    /\ Len(sopWriteChain.links) > SopCap
    /\ Len(sopEntitlementWriteChain.links) > EntitlementCap
    /\ Len(sopRoyaltyLedgerWriteChain.links) > RoyaltyCap
    /\ sopRecords[1] # sopRecords[SopCap]
    /\ sopEntitlements[1] # sopEntitlements[EntitlementCap]

\* C5 (as claimed): a flush that completes has written the in-memory sequence
\* as it is at that moment.
C5_WritesCurrent ==
    [][IntakeFlushOk =>
         intakeDataFile' = Written(JSONStringify(intakeRecords))]_vars

\* C5 (amended): a flush that completes has written the in-memory sequence as
\* it was right after the mutation that scheduled it.
C5_WritesScheduled ==
    [][IntakeFlushOk =>
         intakeDataFile' =
            Written(JSONStringify(StoreAfter(intakeLog, ScheduledBy(1), IntakeCap)))]_vars

\* a flush has written the store as of an earlier append than the latest one
C5_Witness ==
    /\ Len(intakeWriteChain.links) >= 1
    /\ ScheduledBy(1) >= 2
    /\ intakeDataFile =
          Written(JSONStringify(StoreAfter(intakeLog, ScheduledBy(1) - 1, IntakeCap)))
    /\ intakeDataFile # Written(JSONStringify(intakeRecords))

\* the running links of a chain: at most one, and the earliest scheduled
Serialized(chain) == Running(chain) \subseteq {1}

\* C6: per store at most one flush is in flight, and it is the earliest
\* scheduled one that has not finished; the pending flushes are held in the
\* order of the appends that scheduled them.
C6_WritesSerialized ==
    /\ Serialized(intakeWriteChain)
    /\ Serialized(sopWriteChain)
    /\ Serialized(sopEntitlementWriteChain)
    /\ Serialized(sopRoyaltyLedgerWriteChain)
    /\ \A i \in 1..Len(intakeWriteChain.links) :
          intakeWriteChain.links[i].snapshot =
             JSONStringify(StoreAfter(intakeLog, ScheduledBy(i), IntakeCap))

\* a flush is in flight after an earlier one failed, and a later one waits
C6_Witness ==
    /\ Running(intakeWriteChain) = {1}
    /\ Len(intakeWriteChain.links) = 2
    /\ intakeWriteChain.logged >= 1

\* C7: a failed flush leaves the store and the reply as they were, leaves the
\* later flushes in the chain, and the chain stays fulfilled so that they run;
\* the request that scheduled a flush has returned success.
C7_FailureContained ==
    /\ [](~intakeWriteChain.rejected)
    /\ []((request.op = "intake" /\ IntakeSchemaOk(request.plantName)) => reply.ok)
    /\ [][IntakeFlushFail =>
            /\ intakeRecords' = intakeRecords
            /\ reply' = reply
            /\ intakeWriteChain'.links = Tail(intakeWriteChain.links)
            /\ \A i \in 1..Len(intakeWriteChain'.links) :
                  intakeWriteChain'.links[i].st = "waiting"]_vars

\* a flush failed, and the flush of a later append then succeeded
C7_Witness ==
    /\ intakeWriteChain.logged >= 1
    /\ intakeWriteChain.links = <<>>
    /\ Len(intakeRecords) >= 2
    /\ intakeRecords[1] # intakeRecords[2]
    /\ intakeDataFile = Written(JSONStringify(intakeRecords))
    /\ reply.ok

-----------------------------------------------------------------------------
(* Properties of the SOP lifecycle *)

\* the record submit(id, header) is about: the first one with that id and owner
Target(header, id) == FindSop(sopRecords, id, GetUserIdFromHeaders(header))

\* private -> submitted -> approved | rejected, or no move
Forward(from, to) ==
    \/ from = to
    \/ from = "private" /\ to = "submitted"
    \/ from = "submitted" /\ to \in {"approved", "rejected"}

\* C8: submit on a record of the caller that is already submitted, approved
\* or rejected is refused and leaves the record as it is.
C8_SubmitOnlyFromPrivate ==
    [][\A header \in Headers, id \in SopIds :
         (/\ SubmitSop(header, id)
          /\ Target(header, id) # 0
          /\ sopRecords[Target(header, id)].status # "private")
         => (reply'.status # 200 /\ sopRecords' = sopRecords)]_vars

\* C9: submit succeeds exactly when a record with that id is owned by the
\* caller, and then that record is submitted with submittedAt = updatedAt =
\* now; otherwise it is NotFound, no record changes and no flush is scheduled.
C9_OwnerScopedSubmit ==
    [][\A header \in Headers, id \in SopIds \ {NoId} :
         SubmitSop(header, id) =>
            LET userId == GetUserIdFromHeaders(header)
                owned == \E i \in 1..Len(sopRecords) :
                            sopRecords[i].id = id /\ sopRecords[i].ownerId = userId
            IN  /\ reply'.status = 200 <=> owned
                /\ owned =>
                      \E i \in 1..Len(sopRecords) :
                         /\ sopRecords[i].id = id
                         /\ sopRecords[i].ownerId = userId
                         /\ sopRecords'[i].status = "submitted"
                         /\ sopRecords'[i].submittedAt = clock
                         /\ sopRecords'[i].updatedAt = clock
                         /\ reply'.item = sopRecords'[i]
                         /\ Len(sopRecords') = Len(sopRecords)
                         /\ \A j \in 1..Len(sopRecords) :
                               j # i => sopRecords'[j] = sopRecords[j]
                /\ ~owned =>
                      /\ reply'.status = 404
                      /\ sopRecords' = sopRecords
                      /\ sopWriteChain' = sopWriteChain]_vars

\* a submit for a record that exists but belongs to another user was answered
\* NotFound
C9_Witness ==
    /\ request.op = "submit"
    /\ reply.status = 404
    /\ \E i \in 1..Len(sopRecords) :
          /\ sopRecords[i].id = request.id
          /\ sopRecords[i].ownerId # GetUserIdFromHeaders(request.header)

\* C10: a record is created private, and no operation moves the status of a
\* stored record other than forward along private -> submitted -> approved |
\* rejected.
C10_StatusMonotonic ==
    [][/\ \A header \in Headers, name \in SopNames :
            PostSop(header, name, "a") =>
               /\ sopRecords'[1].status = "private"
               /\ \A i \in 2..Len(sopRecords') : sopRecords'[i] = sopRecords[i - 1]
       /\ \A header \in Headers, id \in SopIds :
            SubmitSop(header, id) =>
               /\ Len(sopRecords') = Len(sopRecords)
               /\ \A i \in 1..Len(sopRecords) :
                     Forward(sopRecords[i].status, sopRecords'[i].status)]_vars

-----------------------------------------------------------------------------
(* Properties of the ledger *)

AlreadyOwned(r) == "alreadyOwned" \in DOMAIN r /\ r.alreadyOwned
Granted(r) == r.status = 200 /\ ~AlreadyOwned(r)

\* the (user, product, transaction) a verify request is about
KeyOf(header, body) ==
    <<GetUserIdFromHeaders(header), body.productId, body.transactionId>>
Revenue(body) ==
    IF "netRevenueCents" \in DOMAIN body THEN body.netRevenueCents ELSE 0

IsFor(entry, key) ==
    /\ entry.userId = key[1]
    /\ entry.productId = key[2]
    /\ entry.transactionId = key[3]

Held(key) ==
    Cardinality({i \in 1..Len(sopEntitlements) : IsFor(sopEntitlements[i], key)})

\* C1: a verifyPurchase that grants appends one entitlement and, if revenue
\* is reported, one royalty entry; the same call made again right after it
\* reports already owned, returns that entitlement and appends nothing, so that
\* one entitlement for the triple is held after both.
C1_IdempotentPurchase ==
    [][\A header \in Headers, body \in Purchases :
         VerifyPurchase(header, body, "a", "a") =>
            LET key == KeyOf(header, body)
            IN  /\ Granted(reply') =>
                      /\ granted'[key] = granted[key] + 1
                      /\ sopEntitlements'[1] = reply'.entitlement
                      /\ Held(key)' = 1
                      /\ posted'[key] =
                            posted[key] + (IF Revenue(body) > 0 THEN 1 ELSE 0)
                      /\ IF Revenue(body) > 0
                         THEN /\ sopRoyaltyLedger'[1].transactionId = key[3]
                              /\ sopRoyaltyLedger'[1].productId = key[2]
                              /\ Tail(sopRoyaltyLedger') =
                                    Slice(sopRoyaltyLedger, RoyaltyCap - 1)
                         ELSE sopRoyaltyLedger' = sopRoyaltyLedger
                /\ (/\ request = [op |-> "verify", header |-> header, body |-> body]
                    /\ Granted(reply))
                   => /\ reply'.status = 200
                      /\ AlreadyOwned(reply')
                      /\ reply'.entitlement = reply.entitlement
                      /\ sopEntitlements' = sopEntitlements
                      /\ sopRoyaltyLedger' = sopRoyaltyLedger
                      /\ granted' = granted
                      /\ posted' = posted
                      /\ Held(key)' = 1]_vars

\* a purchase with revenue was granted and then verified again
C1_Witness ==
    /\ request.op = "verify"
    /\ AlreadyOwned(reply)
    /\ Revenue(request.body) > 0
    /\ sopEntitlements[1] = reply.entitlement
    /\ IsFor(sopEntitlements[1], KeyOf(request.header, request.body))
    /\ granted[KeyOf(request.header, request.body)] = 1
    /\ posted[KeyOf(request.header, request.body)] = 1
    /\ sopRoyaltyLedger[1].transactionId = request.body.transactionId

\* C2: within one process lifetime at most one entitlement is granted and at
\* most one royalty entry is posted for a (user, product, transaction),
\* whatever other purchases are verified in between.
C2_RetrySafety ==
    \A key \in Triples : granted[key] <= 1 /\ posted[key] <= 1

\* C3: the entitlement store holds no two records with the same (user,
\* product, transaction).
C3_UniqueTriples ==
    \A i, j \in 1..Len(sopEntitlements) :
       (/\ sopEntitlements[i].userId = sopEntitlements[j].userId
        /\ sopEntitlements[i].productId = sopEntitlements[j].productId
        /\ sopEntitlements[i].transactionId = sopEntitlements[j].transactionId)
       => i = j

\* a purchase granted by an earlier process, loaded from the snapshot, was
\* verified again, next to one granted by this process
C3_Witness ==
    /\ request.op = "verify"
    /\ AlreadyOwned(reply)
    /\ granted[KeyOf(request.header, request.body)] = 0
    /\ Len(sopEntitlements) = EntitlementCap

-----------------------------------------------------------------------------
(* Properties of the snapshot files *)

\* a store whose flushes have all completed, read back from its file
RoundTrips(records, chain, file, loaded) ==
    (chain.links = <<>> /\ chain.logged = 0 /\ file.state = "written")
       => loaded = records

\* C11: once every scheduled flush of a store has completed, loading the
\* store's snapshot file gives back the in-memory sequence as it is (the file
\* never holds more than the store's cap), for every store.
C11_RoundTrip ==
    /\ RoundTrips(intakeRecords, intakeWriteChain, intakeDataFile,
                  LoadIntakeRecords(intakeDataFile))
    /\ RoundTrips(chatRecords, chatWriteChain, chatDataFile,
                  LoadChatRecords(chatDataFile))
    /\ RoundTrips(sopRecords, sopWriteChain, sopDataFile,
                  LoadSopRecords(sopDataFile))
    /\ RoundTrips(sopEntitlements, sopEntitlementWriteChain,
                  sopEntitlementDataFile,
                  LoadSopEntitlements(sopEntitlementDataFile))
    /\ RoundTrips(sopRoyaltyLedger, sopRoyaltyLedgerWriteChain,
                  sopRoyaltyLedgerDataFile,
                  LoadSopRoyaltyLedger(sopRoyaltyLedgerDataFile))

\* the file can be read, is JSON, and is an array
Readable(file) == file.state = "written" /\ file.text.json = "array"

\* what a store holds right after start, given its file: nothing, or all the
\* records of the file up to the loader's cap; nothing whenever the file is
\* unreadable or one of its records lacks a required field
AllOrNothing(records, file, required, cap) ==
    /\ records \in {<<>>, Slice(file.text.items, cap)}
    /\ (\/ ~Readable(file)
        \/ \E i \in 1..Len(file.text.items) :
              ~(required \subseteq DOMAIN file.text.items[i]))
       => records = <<>>
    /\ (/\ Readable(file)
        /\ \A i \in 1..Len(file.text.items) :
              required \subseteq DOMAIN file.text.items[i])
       => records = Slice(file.text.items, cap)

\* C12: right after start (no request handled yet) each store is empty if
\* its snapshot file is missing, is not JSON, is not an array or holds one
\* record without a required field, and holds the file's records otherwise:
\* never a subset of them.
C12_LoadFailsClosed ==
    request = NoRequest =>
       /\ AllOrNothing(intakeRecords, intakeDataFile, IntakeKeys, IntakeLoadCap)
       /\ AllOrNothing(chatRecords, chatDataFile, ChatKeys, ChatLoadCap)
       /\ AllOrNothing(sopRecords, sopDataFile, SopKeys, SopLoadCap)
       /\ AllOrNothing(sopEntitlements, sopEntitlementDataFile, EntitlementKeys,
                       EntitlementLoadCap)
       /\ AllOrNothing(sopRoyaltyLedger, sopRoyaltyLedgerDataFile, RoyaltyKeys,
                       RoyaltyLoadCap)

\* the process has started on an intake file that is not JSON, next to chat
\* and entitlement files that hold one whole record and one damaged one, and
\* the three stores are empty
C12_Witness ==
    /\ request = NoRequest
    /\ intakeDataFile = Torn
    /\ intakeRecords = <<>>
    /\ chatDataFile.state = "written"
    /\ Len(chatDataFile.text.items) = 2
    /\ ChatKeys \subseteq DOMAIN chatDataFile.text.items[1]
    /\ ~(ChatKeys \subseteq DOMAIN chatDataFile.text.items[2])
    /\ chatRecords = <<>>
    /\ sopEntitlementDataFile.state = "written"
    /\ sopEntitlements = <<>>

\* the file holds the store as it is in memory
Mirrors(file, records) == file = Written(JSONStringify(records))

\* C13: with every write succeeding and the write chain run fairly, a store
\* that has been mutated is eventually mirrored by its file with no flush
\* left, and whenever no flush is left the file mirrors the store (so it does
\* until the next mutation schedules one).
C13_EventuallyConsistent ==
    /\ []((chatLog # <<>> /\ chatWriteChain.links = <<>>)
            => Mirrors(chatDataFile, chatRecords))
    /\ []((intakeLog # <<>> /\ intakeWriteChain.links = <<>>)
            => Mirrors(intakeDataFile, intakeRecords))
    /\ (chatLog # <<>>) ~>
          (chatWriteChain.links = <<>> /\ Mirrors(chatDataFile, chatRecords))
    /\ (intakeLog # <<>>) ~>
          (intakeWriteChain.links = <<>> /\ Mirrors(intakeDataFile, intakeRecords))
    /\ <>[](chatLog # <<>> => Mirrors(chatDataFile, chatRecords))

\* the chat store has evicted a record, its flushes are done and its file
\* holds what memory holds; so does the intake file
C13_Witness ==
    /\ Len(chatLog) > ChatCap
    /\ chatWriteChain.links = <<>>
    /\ Mirrors(chatDataFile, chatRecords)
    /\ chatRecords[1] # chatRecords[2]
    /\ Len(intakeLog) >= 2
    /\ intakeWriteChain.links = <<>>
    /\ Mirrors(intakeDataFile, intakeRecords)

\* an intake write has started and has not settled
Stuck == Running(intakeWriteChain) # {}

\* C14: an append returns with its flush still waiting and the file untouched;
\* while a write of the intake file does not complete no later intake flush
\* starts and the file stays as it is, yet appends and lists on the intake
\* store still go through and show the store in memory, and the flushes of
\* the chat store still complete.
C14_FlushIsolation ==
    /\ [][\A plantName \in PlantNames :
            PostIntake(plantName, "a") =>
               /\ reply'.ok
               /\ intakeRecords'[1].plantName = plantName
               /\ Len(intakeWriteChain'.links) = Len(intakeWriteChain.links) + 1
               /\ intakeWriteChain'.links[Len(intakeWriteChain'.links)].st = "waiting"
               /\ Running(intakeWriteChain') = Running(intakeWriteChain)
               /\ intakeDataFile' = intakeDataFile]_vars
    /\ [][\A query \in Queries :
            GetIntakeRecent(query) =>
               /\ reply'.count = Len(intakeRecords)
               /\ intakeRecords # <<>> => reply'.items[1] = intakeRecords[1]]_vars
    /\ [](Stuck =>
            /\ Running(intakeWriteChain) = {1}
            /\ ENABLED PostIntake("Basil", "a")
            /\ ENABLED GetIntakeRecent([other |-> "1"]))
    /\ [][Stuck => (Stuck' /\ intakeDataFile' = intakeDataFile)]_vars
    /\ (Stuck /\ chatWriteChain.links # <<>>) ~>
          (Stuck /\ chatWriteChain.links = <<>>
                 /\ Mirrors(chatDataFile, chatRecords))

\* the first intake write is stuck, two more appends have gone through and
\* wait behind it, a listing has shown the newest of them, and every chat
\* message has reached the chat file
C14_Witness ==
    /\ Running(intakeWriteChain) = {1}
    /\ Len(intakeWriteChain.links) = 3
    /\ intakeDataFile = NoFile
    /\ request.op = "intakeRecent"
    /\ reply.count = 3
    /\ reply.items[1] = intakeLog[3]
    /\ Len(chatLog) = 2
    /\ chatWriteChain.links = <<>>
    /\ Mirrors(chatDataFile, chatRecords)

-----------------------------------------------------------------------------
(* Properties of the royalty ledger *)

\* amount is net x percent / 100 rounded to the nearest integer, halves up
RoundsHalfUp(amount, net, percent) ==
    /\ amount * 100 <= net * percent + 50
    /\ net * percent + 50 < (amount + 1) * 100

\* C15: every entry of the royalty ledger carries round(net x percent / 100)
\* with halves rounded up, between 0 and the net revenue; so does the
\* arithmetic for every revenue up to MaxRevenue and every percent up to 100,
\* with (1000, 30) giving 300 and (999, 33) giving 330.
C15_RoyaltyArithmetic ==
    /\ \A i \in 1..Len(sopRoyaltyLedger) :
          LET entry == sopRoyaltyLedger[i]
          IN  /\ RoundsHalfUp(entry.royaltyAmountCents, entry.netRevenueCents,
                              entry.royaltyPercent)
              /\ 0 <= entry.royaltyAmountCents
              /\ entry.royaltyAmountCents <= entry.netRevenueCents
    /\ \A net \in 0..MaxRevenue, percent \in 0..100 :
          /\ RoundsHalfUp(RoyaltyAmountCents(net, percent), net, percent)
          /\ 0 <= RoyaltyAmountCents(net, percent)
          /\ RoyaltyAmountCents(net, percent) <= net
    /\ RoyaltyAmountCents(1000, 30) = 300
    /\ RoyaltyAmountCents(999, 33) = 330

\* the ledger holds an entry whose royalty was a half and was rounded up
\* (5 x 30% = 1.5 -> 2) next to one that was rounded up from 299.7
C15_Witness ==
    /\ Len(sopRoyaltyLedger) = 2
    /\ sopRoyaltyLedger[1].netRevenueCents = 5
    /\ sopRoyaltyLedger[1].royaltyAmountCents = 2
    /\ sopRoyaltyLedger[2].netRevenueCents = 999
    /\ sopRoyaltyLedger[2].royaltyAmountCents = 300

\* C16: a verifyPurchase for a listed product and a (user, product,
\* transaction) that has no entitlement yet grants the entitlement and
\* succeeds; with revenue > 0 it puts one entry at the head of the royalty
\* ledger, carrying the call's transaction and the listing's id, creator and
\* percent, and schedules one royalty flush; with revenue 0 or left out it
\* leaves the ledger and its write chain as they are.
C16_RoyaltyPosting ==
    [][\A header \in Headers, body \in PricedPurchases \cup FreePurchases :
         (/\ VerifyPurchase(header, body, "a", "a")
          /\ Held(KeyOf(header, body)) = 0)
         => LET key == KeyOf(header, body)
                listing == STORE_LISTINGS[FindListing(body.productId)]
            IN  /\ Granted(reply')
                /\ IsFor(reply'.entitlement, key)
                /\ sopEntitlements'[1] = reply'.entitlement
                /\ Tail(sopEntitlements') =
                      Slice(sopEntitlements, EntitlementCap - 1)
                /\ IF Revenue(body) > 0
                   THEN /\ Tail(sopRoyaltyLedger') =
                              Slice(sopRoyaltyLedger, RoyaltyCap - 1)
                        /\ sopRoyaltyLedger'[1].transactionId = body.transactionId
                        /\ sopRoyaltyLedger'[1].productId = listing.id
                        /\ listing.id = body.productId
                        /\ sopRoyaltyLedger'[1].creatorId = listing.creatorId
                        /\ sopRoyaltyLedger'[1].royaltyPercent =
                              listing.royaltyPercent
                        /\ sopRoyaltyLedger'[1].netRevenueCents = Revenue(body)
                        /\ Len(sopRoyaltyLedgerWriteChain'.links) =
                              Len(sopRoyaltyLedgerWriteChain.links) + 1
                   ELSE /\ sopRoyaltyLedger' = sopRoyaltyLedger
                        /\ sopRoyaltyLedgerWriteChain' =
                              sopRoyaltyLedgerWriteChain]_vars

\* a purchase with revenue was granted and posted, then one that states no
\* revenue was granted and left the ledger and its chain alone
C16_Witness ==
    /\ request.op = "verify"
    /\ "netRevenueCents" \notin DOMAIN request.body
    /\ Granted(reply)
    /\ Len(sopEntitlements) = 2
    /\ sopEntitlements[1] = reply.entitlement
    /\ Len(sopRoyaltyLedger) = 1
    /\ sopRoyaltyLedger[1].transactionId = sopEntitlements[2].transactionId
    /\ sopRoyaltyLedger[1].productId = sopEntitlements[2].productId
    /\ Len(sopRoyaltyLedgerWriteChain.links) = 1

\* the product is in the catalog and on sale
Listed(productId) ==
    \E i \in 1..Len(STORE_LISTINGS) :
       STORE_LISTINGS[i].id = productId /\ STORE_LISTINGS[i].active

\* C17: a verifyPurchase with a well-formed body for a product that is not in
\* the catalog is answered NotFound, also when an entitlement for that very
\* (user, product, transaction) is in the store, and changes neither store
\* nor write chain; the catalog lookup finds a product exactly when a listing
\* with that id is active, in every catalog made of the source's listings.
C17_UnlistedNotFound ==
    /\ [][\A header \in Headers, body \in Bodies :
            (/\ VerifyPurchase(header, body, "a", "a")
             /\ IapVerifyParse(body).success
             /\ ~Listed(body.productId))
            => /\ reply'.status = 404
               /\ ~reply'.ok
               /\ sopEntitlements' = sopEntitlements
               /\ sopRoyaltyLedger' = sopRoyaltyLedger
               /\ sopEntitlementWriteChain' = sopEntitlementWriteChain
               /\ sopRoyaltyLedgerWriteChain' = sopRoyaltyLedgerWriteChain]_vars
    /\ [](\A listings \in Catalogs, productId \in ProductIds :
             FindListingIn(listings, productId) # 0
                <=> \E i \in 1..Len(listings) :
                       listings[i].id = productId /\ listings[i].active)

\* a purchase of a product that is not listed was answered NotFound while the
\* store held an entitlement for that user, product and transaction, after
\* another purchase had been granted
C17_Witness ==
    /\ request.op = "verify"
    /\ request.body.productId = "sop_retired"
    /\ reply.status = 404
    /\ Held(KeyOf(request.header, request.body)) = 1
    /\ Len(sopEntitlements) = 2
    /\ Len(sopEntitlementWriteChain.links) = 1

-----------------------------------------------------------------------------
(* Properties of the listings *)

\* the limit a query asks for, in whole records, as the contract reads it:
\* the numeral's value cut at the ceiling when it is a positive number, the
\* default when there is no limit or it is no positive finite number
PositiveNumerals == {s \in DOMAIN Decimals : Decimals[s] > 0}
EffectiveLimit(query) ==
    IF "limit" \in DOMAIN query /\ query.limit \in PositiveNumerals
    THEN Min(Decimals[query.limit], RecentCeiling * 10) \div 10
    ELSE RecentDefault

\* items is the first min(limit, length) records of the store
Lists(items, records, query) ==
    /\ Len(items) = Min(EffectiveLimit(query), Len(records))
    /\ Len(items) <= RecentCeiling
    /\ \A i \in 1..Len(items) : items[i] = records[i]

\* C18: a listing returns the first min(effective limit, length) records of
\* the store, head first, where the effective limit is min(limit, ceiling)
\* for a positive finite limit and the default otherwise; never more than
\* the ceiling; and it changes no store, chain or file.
C18_ListLimit ==
    [][/\ \A query \in Queries :
            GetIntakeRecent(query) =>
               /\ Lists(reply'.items, intakeRecords, query)
               /\ reply'.count = Len(intakeRecords)
               /\ UNCHANGED <<memVars, chainVars, fileVars, chatVars>>
       /\ \A query \in Queries :
            GetChatRecent(query) =>
               /\ Lists(reply'.items, chatRecords, query)
               /\ reply'.count = Len(chatRecords)
               /\ UNCHANGED <<memVars, chainVars, fileVars, chatVars>>]_vars

\* a full intake store was listed with a limit above the ceiling, and the
\* ceiling's worth of records came back, newest first
C18_Witness ==
    /\ request.op = "intakeRecent"
    /\ "limit" \in DOMAIN request.query
    /\ request.query.limit \in DOMAIN Decimals
    /\ Decimals[request.query.limit] > RecentCeiling * 10
    /\ Len(intakeRecords) = IntakeCap
    /\ Len(reply.items) = RecentCeiling
    /\ reply.items[1] = intakeLog[Len(intakeLog)]
    /\ reply.items[1] # reply.items[2]

\* the numeral of a whole number
Numeral(n) == CHOOSE s \in DOMAIN Decimals : s # "" /\ Decimals[s] = n * 10

\* the eviction scenario: cap + Evicted intake records were appended to the
\* empty store, and the store is then listed with limit = cap
FullStoreListed ==
    /\ Len(intakeLog) = IntakeCap + Evicted
    /\ request = [op |-> "intakeRecent", query |-> [limit |-> Numeral(IntakeCap)]]

\* C19 (as claimed): the listing then returns cap records, from the last
\* appended one down to the first one not evicted.
C19_EvictionList ==
    FullStoreListed =>
       /\ Len(reply.items) = IntakeCap
       /\ reply.items[1] = intakeLog[IntakeCap + Evicted]
       /\ reply.items[Len(reply.items)] = intakeLog[Evicted + 1]

\* C19 (amended): the store then holds cap records, from the last appended
\* one down to the first one not evicted, and the listing returns the newest
\* of them up to the ceiling of a listing.
C19_EvictionListCeiling ==
    FullStoreListed =>
       LET N == IntakeCap + Evicted
           returned == Min(RecentCeiling, IntakeCap)
       IN  /\ Len(intakeRecords) = IntakeCap
           /\ reply.count = IntakeCap
           /\ intakeRecords[1] = intakeLog[N]
           /\ intakeRecords[IntakeCap] = intakeLog[Evicted + 1]
           /\ Len(reply.items) = returned
           /\ reply.items[1] = intakeLog[N]
           /\ reply.items[returned] = intakeLog[N - returned + 1]

\* the scenario has happened with records that can be told apart
C19_Witness ==
    /\ FullStoreListed
    /\ Len(reply.items) = RecentCeiling
    /\ intakeLog[Evicted] # intakeLog[Evicted + 1]
    /\ intakeLog[IntakeCap + Evicted] # intakeLog[IntakeCap + Evicted - 1]
    /\ reply.items[1] # intakeRecords[IntakeCap]

\* the positions in the store of the records user owns
OwnedBy(userId) == {i \in 1..Len(sopRecords) : sopRecords[i].ownerId = userId}

\* i stands before j in the listing: it was updated later, or at the same
\* time and it stands before j in the store
ListedBefore(i, j) ==
    \/ sopRecords[i].updatedAt > sopRecords[j].updatedAt
    \/ sopRecords[i].updatedAt = sopRecords[j].updatedAt /\ i < j

\* C20: the listing of a user's SOPs holds that user's records and no other,
\* latest updatedAt first, records with the same updatedAt in the order they
\* have in the store; and it leaves the store as it is.
C20_MySopsOrder ==
    [][\A header \in Headers :
         GetMySops(header) =>
            LET mine == OwnedBy(GetUserIdFromHeaders(header))
            IN  /\ sopRecords' = sopRecords
                /\ Len(reply'.items) = Cardinality(mine)
                /\ \A k \in 1..Len(reply'.items) :
                      \E i \in mine :
                         /\ reply'.items[k] = sopRecords[i]
                         /\ Cardinality({j \in mine : ListedBefore(j, i)}) = k - 1]_vars

-----------------------------------------------------------------------------
(* Properties of the identifiers *)

\* no two records of the sequence carry the same id
UniqueIds(records) ==
    \A i, j \in 1..Len(records) : records[i].id = records[j].id => i = j

\* C21: no store holds two records with the same id, however many records
\* are appended within one millisecond.
C21_UniqueIds ==
    /\ UniqueIds(intakeRecords)
    /\ UniqueIds(chatRecords)
    /\ UniqueIds(sopRecords)
    /\ UniqueIds(sopEntitlements)
    /\ UniqueIds(sopRoyaltyLedger)

-----------------------------------------------------------------------------
(* Properties of the ledger across crashes *)

\* the next flush of the chain is ready to start
Ready(chain) == chain.links # <<>> /\ chain.links[1].st = "waiting"

\* C22: a granted purchase with revenue chains one write on the entitlement
\* queue and one on the royalty queue and touches neither file; each queue
\* can start its next write whatever the state of the other; a flush step of
\* one store leaves the other store's queue and file alone; and a restart
\* loads each store from its own file.  (That a crash then leaves either
\* record durable without the other is the state C22_Witness describes.)
C22_IndependentQueues ==
    /\ [][/\ \A body \in PaidPurchases :
               (VerifyPurchase("alice", body, "a", "a") /\ Granted(reply'))
               => /\ Len(sopEntitlementWriteChain'.links) =
                        Len(sopEntitlementWriteChain.links) + 1
                  /\ Len(sopRoyaltyLedgerWriteChain'.links) =
                        Len(sopRoyaltyLedgerWriteChain.links) + 1
                  /\ UNCHANGED <<sopEntitlementDataFile, sopRoyaltyLedgerDataFile>>
          /\ (EntitlementFlushStart \/ EntitlementFlushOk)
               => UNCHANGED <<sopRoyaltyLedgerWriteChain, sopRoyaltyLedgerDataFile,
                              memVars>>
          /\ (RoyaltyFlushStart \/ RoyaltyFlushOk)
               => UNCHANGED <<sopEntitlementWriteChain, sopEntitlementDataFile,
                              memVars>>
          /\ Restart
               => /\ sopEntitlements' = LoadSopEntitlements(sopEntitlementDataFile')
                  /\ sopRoyaltyLedger' =
                        LoadSopRoyaltyLedger(sopRoyaltyLedgerDataFile')]_vars
    /\ [](/\ Ready(sopEntitlementWriteChain) => ENABLED EntitlementFlushStart
          /\ Ready(sopRoyaltyLedgerWriteChain) => ENABLED RoyaltyFlushStart)

\* after crashes and a restart the process holds, loaded from the files, the
\* entitlement of one paid purchase without its royalty entry and the royalty
\* entry of another paid purchase without its entitlement
C22_Witness ==
    /\ request = NoRequest
    /\ sopEntitlementDataFile.state = "written"
    /\ sopRoyaltyLedgerDataFile.state = "written"
    /\ Len(sopEntitlements) = 1
    /\ Len(sopRoyaltyLedger) = 1
    /\ sopEntitlements[1].productId = sopRoyaltyLedger[1].productId
    /\ sopEntitlements[1].transactionId # sopRoyaltyLedger[1].transactionId

-----------------------------------------------------------------------------
(* Properties of ownership *)

\* C23: the catalog listing shows a product as owned to every user this
\* process has granted it to, whatever was purchased since, by that user or
\* by others.
C23_OwnershipPersists ==
    request.op = "store" =>
       \A key \in Triples :
          (key[1] = GetUserIdFromHeaders(request.header) /\ granted[key] > 0)
          => \E k \in 1..Len(reply.items) :
                /\ reply.items[k].id = key[2]
                /\ reply.items[k].status = "owned"

\* C24: a verifyPurchase that reports already owned changes neither ledger
\* store and schedules no flush, whatever revenue it states; and once a
\* (user, product, transaction) has been granted with no revenue, no later
\* call for it that states a revenue posts a royalty entry.
C24_AlreadyOwnedFrame ==
    [][\A header \in Headers, body \in Purchases :
         VerifyPurchase(header, body, "a", "a") =>
            LET key == KeyOf(header, body)
            IN  /\ AlreadyOwned(reply') =>
                      UNCHANGED <<sopEntitlements, sopRoyaltyLedger,
                                  sopEntitlementWriteChain,
                                  sopRoyaltyLedgerWriteChain>>
                /\ (granted[key] > 0 /\ posted[key] = 0 /\ Revenue(body) > 0) =>
                      UNCHANGED <<sopRoyaltyLedger, sopRoyaltyLedgerWriteChain>>]_vars

\* the ledger holds a royalty entry for the product and transaction
Posted(productId, transactionId) ==
    \E i \in 1..Len(sopRoyaltyLedger) :
       /\ sopRoyaltyLedger[i].productId = productId
       /\ sopRoyaltyLedger[i].transactionId = transactionId

\* C25: after a verifyPurchase with revenue has been answered, in whatever
\* process (before or after a crash and restart), the royalty ledger holds no
\* two entries for the same product and transaction, and an entitlement held
\* for the call's (user, product, transaction) has its royalty entry.
C25_RetrySafeAcrossRestart ==
    (request.op = "verify" /\ reply.status = 200) =>
       /\ \A i, j \in 1..Len(sopRoyaltyLedger) :
             (/\ sopRoyaltyLedger[i].productId = sopRoyaltyLedger[j].productId
              /\ sopRoyaltyLedger[i].transactionId =
                    sopRoyaltyLedger[j].transactionId)
             => i = j
       /\ Held(KeyOf(request.header, request.body)) > 0
             => Posted(request.body.productId, request.body.transactionId)

=============================================================================
